---- MODULE Spec2Model ----
(***************************************************************************)
(* Model of one paired tic-tac-toe session of src/src/game.rs: the startup *)
(* sends, the select! loop over the two participants' receives, the move   *)
(* engine make_a_move / check_winner, the disconnect branches and the      *)
(* win/loss reporting that follows the loop.                               *)
(*                                                                         *)
(* The session task is split at its await points that matter to an         *)
(* observer: after a Move is received, after make_a_move returns, after    *)
(* the send to the submitter, after the send to the opponent.  pc names    *)
(* the position of the task.                                               *)
(***************************************************************************)
EXTENDS Integers, Sequences, FiniteSets, TLC

\* ---------------------------------------------------------------- bounds
\* Largest field index a client submits; 9 is the out-of-range case.
MaxField == 9

\* Number of connections that reach search_game.
NumTickets == 4

\* ------------------------------------------------------------- data types
Tickets == 1 .. NumTickets
Players == {1, 2}
Other(p) == 3 - p
Cells == 0 .. 8
NoMove == -1

WINNING_COMBINATIONS ==
  << <<0, 1, 2>>, <<3, 4, 5>>, <<6, 7, 8>>,
     <<0, 3, 6>>, <<1, 4, 7>>, <<2, 5, 8>>,
     <<0, 4, 8>>, <<2, 4, 6>> >>

GameDefault ==
  [board |-> [i \in Cells |-> "Null"], current_move |-> "O"]

first_response_player1 ==
  [game |-> GameDefault, response |-> "Waiting", status |-> "InGame",
   your_symbol |-> "O"]

first_response_player2 ==
  [game |-> GameDefault, response |-> "Waiting", status |-> "InGame",
   your_symbol |-> "X"]

\* serde_json::to_string of a SerwerResponse (enums and a fixed array) has
\* no failing case; the Err arms of the startup matches are kept below.
ToStringResults == {TRUE}

\* ------------------------------------------------------------ move engine
\* A combination is complete when its three cells hold one non-Null symbol.
ComboComplete(board, combo) ==
  /\ board[combo[1]] # "Null"
  /\ board[combo[1]] = board[combo[2]]
  /\ board[combo[1]] = board[combo[3]]

\* check_winner that never looks at the last combination <<2, 4, 6>>.
check_winner_SevenCombos(board) ==
  LET hits == {i \in 1 .. Len(WINNING_COMBINATIONS) - 1 :
                 ComboComplete(board, WINNING_COMBINATIONS[i])}
  IN IF hits # {}
     THEN LET first == CHOOSE i \in hits : \A j \in hits : i <= j
              a == WINNING_COMBINATIONS[first][1]
          IN IF board[a] = "O" THEN "Player1Won" ELSE "Player2Won"
     ELSE IF \A i \in Cells : board[i] # "Null"
          THEN "Draw"
          ELSE "InGame"

check_winner(board) ==
  LET hits == {i \in 1 .. Len(WINNING_COMBINATIONS) :
                 ComboComplete(board, WINNING_COMBINATIONS[i])}
  IN IF hits # {}
     THEN LET first == CHOOSE i \in hits : \A j \in hits : i <= j
              a == WINNING_COMBINATIONS[first][1]
          IN IF board[a] = "O" THEN "Player1Won" ELSE "Player2Won"
     ELSE IF \A i \in Cells : board[i] # "Null"
          THEN "Draw"
          ELSE "InGame"

\* FieldRefused without the test that the cell is empty.
FieldRefused_NoOccupiedTest(from_user, board) ==
  from_user > 8 \/ from_user < 0

\* The third guard of make_a_move: the index is out of range or the cell is
\* taken (evaluated left to right, so the board is only indexed in range).
FieldRefused(from_user, board) ==
  from_user > 8 \/ from_user < 0 \/ board[from_user] # "Null"

\* next_current_move that leaves the turn with the player who just moved.
next_current_move_NoFlip(status, current_move) ==
  IF status # "InGame" THEN "Null" ELSE current_move

\* current_move after an accepted move.
next_current_move(status, current_move) ==
  IF status # "InGame" THEN "Null"
  ELSE IF current_move = "O" THEN "X" ELSE "O"

\* make_a_move that does not copy the board into the waiting view.
make_a_move_NoBoardCopy(from_user, current_player, waiting_player) ==
  IF current_player.your_symbol # current_player.game.current_move
  THEN << [current_player EXCEPT !.status = "InGame", !.response = "Refused"],
          waiting_player >>
  ELSE IF current_player.status # "InGame"
  THEN << [current_player EXCEPT !.response = "Refused"], waiting_player >>
  ELSE IF FieldRefused(from_user, current_player.game.board)
  THEN << [current_player EXCEPT !.response = "Refused"], waiting_player >>
  ELSE LET symbol == current_player.your_symbol
           board == [current_player.game.board EXCEPT ![from_user] = symbol]
           status == check_winner(board)
           cm == next_current_move(status, current_player.game.current_move)
       IN << [game |-> [board |-> board, current_move |-> cm],
              response |-> "Accepted",
              status |-> status,
              your_symbol |-> current_player.your_symbol],
             [game |-> [board |-> waiting_player.game.board,
                        current_move |-> cm],
              response |-> "Waiting",
              status |-> status,
              your_symbol |-> waiting_player.your_symbol] >>

\* make_a_move that flips current_move in the submitter's view only.
make_a_move_TurnInOneView(from_user, current_player, waiting_player) ==
  IF current_player.your_symbol # current_player.game.current_move
  THEN << [current_player EXCEPT !.status = "InGame", !.response = "Refused"],
          waiting_player >>
  ELSE IF current_player.status # "InGame"
  THEN << [current_player EXCEPT !.response = "Refused"], waiting_player >>
  ELSE IF FieldRefused(from_user, current_player.game.board)
  THEN << [current_player EXCEPT !.response = "Refused"], waiting_player >>
  ELSE LET symbol == current_player.your_symbol
           board == [current_player.game.board EXCEPT ![from_user] = symbol]
           status == check_winner(board)
           cm == next_current_move(status, current_player.game.current_move)
       IN << [game |-> [board |-> board, current_move |-> cm],
              response |-> "Accepted",
              status |-> status,
              your_symbol |-> current_player.your_symbol],
             [game |-> [board |-> board,
                        current_move |-> waiting_player.game.current_move],
              response |-> "Waiting",
              status |-> status,
              your_symbol |-> waiting_player.your_symbol] >>

\* make_a_move(from_user, &mut current_player, &mut waiting_player):
\* the pair of views after the call.
make_a_move(from_user, current_player, waiting_player) ==
  IF current_player.your_symbol # current_player.game.current_move
  THEN << [current_player EXCEPT !.status = "InGame", !.response = "Refused"],
          waiting_player >>
  ELSE IF current_player.status # "InGame"
  THEN << [current_player EXCEPT !.response = "Refused"], waiting_player >>
  ELSE IF FieldRefused(from_user, current_player.game.board)
  THEN << [current_player EXCEPT !.response = "Refused"], waiting_player >>
  ELSE LET symbol == current_player.your_symbol
           board == [current_player.game.board EXCEPT ![from_user] = symbol]
           status == check_winner(board)
           cm == next_current_move(status, current_player.game.current_move)
       IN << [game |-> [board |-> board, current_move |-> cm],
              response |-> "Accepted",
              status |-> status,
              your_symbol |-> current_player.your_symbol],
             [game |-> [board |-> board, current_move |-> cm],
              response |-> "Waiting",
              status |-> status,
              your_symbol |-> waiting_player.your_symbol] >>

\* ------------------------------------------------------------------ state
VARIABLES
  player1_response,  \* the view of player 1 (symbol O)
  player2_response,  \* the view of player 2 (symbol X)
  pc,                \* position of the session task
  mover,             \* the select! branch being handled (0: none)
  player_move,       \* field of the Move being handled (NoMove: none)
  sent,              \* send attempts of the current stage, in order
  wins,              \* number of add_win_id calls per player
  loses,             \* number of add_lose_id calls per player
  closed,            \* the player whose receive yielded closed/error (0: none)
  accepted,          \* number of moves make_a_move accepted, per player
  \* matchmaking (search_game), one task per connection
  tpc,               \* position of each connection's search_game task
  handshake,         \* what each connection's first receive yielded
  queue,             \* appmod.queue: the parked senders, by their waiter
  lock,              \* the task holding the queue mutex (0: free)
  chan,              \* per waiter, the value sent into its oneshot (0: none)
  order,             \* the connections in the order they took the mutex
  games              \* the game() calls made, in the order they started

svars == << player1_response, player2_response, pc, mover, player_move, sent,
            wins, loses, closed, accepted >>

qvars == << tpc, handshake, queue, lock, chan, order, games >>

vars == << svars, qvars >>

View(p) == IF p = 1 THEN player1_response ELSE player2_response

\* One send attempt: the recipient, the serialized view and the result.
Attempt(p, view, ok) == [to |-> p, msg |-> view, ok |-> ok]

Init ==
  /\ player1_response = first_response_player1
  /\ player2_response = first_response_player2
  /\ pc = "start"
  /\ mover = 0
  /\ player_move = NoMove
  /\ sent = << >>
  /\ wins = [p \in Players |-> 0]
  /\ loses = [p \in Players |-> 0]
  /\ closed = 0
  /\ accepted = [p \in Players |-> 0]
  /\ tpc = [t \in Tickets |-> "connect"]
  /\ handshake = [t \in Tickets |-> "none"]
  /\ queue = << >>
  /\ lock = 0
  /\ chan = [t \in Tickets |-> 0]
  /\ order = << >>
  /\ games = << >>

\* game(): the two startup sends and the check that follows them.  The
\* result of each socket send is dropped (let _ =); only a to_string error
\* marks the other view with Error and makes the function return.
Start ==
  /\ pc = "start"
  /\ \E ser1 \in ToStringResults, ser2 \in ToStringResults,
        ok1 \in BOOLEAN, ok2 \in BOOLEAN :
       LET p2 == IF ser1 THEN player2_response
                 ELSE [player2_response EXCEPT !.status = "Error"]
           p1 == IF ser2 THEN player1_response
                 ELSE [player1_response EXCEPT !.status = "Error"]
           s1 == IF ser1 THEN << Attempt(1, player1_response, ok1) >>
                 ELSE << >>
           s2 == IF ser2 THEN << Attempt(2, p2, ok2) >> ELSE << >>
       IN /\ player1_response' = p1
          /\ player2_response' = p2
          /\ sent' = s1 \o s2
          /\ pc' = IF p1.status = "Error" \/ p2.status = "Error"
                   THEN "done" ELSE "loop"
  /\ UNCHANGED << mover, player_move, wins, loses, closed >>
  /\ UNCHANGED << accepted, qvars >>

\* A select! branch receives a text message that parses as a Move.
RecvMove(p) ==
  /\ pc = "loop"
  /\ \E field \in 0 .. MaxField : player_move' = field
  /\ mover' = p
  /\ sent' = << >>
  /\ pc' = "move"
  /\ UNCHANGED << player1_response, player2_response, wins, loses, closed >>
  /\ UNCHANGED << accepted, qvars >>

\* The branch calls make_a_move with the receiver as current_player and the
\* other participant as waiting_player; the Move is consumed by the call.
MakeMove ==
  /\ pc = "move"
  /\ LET r == make_a_move(player_move, View(mover), View(Other(mover)))
     IN /\ player1_response' = IF mover = 1 THEN r[1] ELSE r[2]
        /\ player2_response' = IF mover = 1 THEN r[2] ELSE r[1]
        /\ accepted' = IF r[1].response = "Accepted"
                       THEN [accepted EXCEPT ![mover] = @ + 1]
                       ELSE accepted
  /\ player_move' = NoMove
  /\ pc' = "send_current"
  /\ UNCHANGED << mover, sent, wins, loses, closed >>
  /\ UNCHANGED qvars

\* SendCurrent that goes back to waiting for input when its send fails,
\* without the send to the opponent.
SendCurrent_ContinueOnError ==
  /\ pc = "send_current"
  /\ \E ok \in BOOLEAN :
       /\ sent' = Append(sent, Attempt(mover, View(mover), ok))
       /\ pc' = IF ok THEN "send_waiting" ELSE "loop"
       /\ IF ok
          THEN UNCHANGED << player1_response, player2_response >>
          ELSE IF mover = 1
               THEN /\ player2_response' =
                         [player2_response EXCEPT !.status = "Error"]
                    /\ UNCHANGED player1_response
               ELSE /\ player1_response' =
                         [player1_response EXCEPT !.status = "Error"]
                    /\ UNCHANGED player2_response
  /\ UNCHANGED << mover, player_move, wins, loses, closed >>
  /\ UNCHANGED << accepted, qvars >>

\* send_json to the submitter; an error marks the opponent's view.
SendCurrent ==
  /\ pc = "send_current"
  /\ \E ok \in BOOLEAN :
       /\ sent' = Append(sent, Attempt(mover, View(mover), ok))
       /\ IF ok
          THEN UNCHANGED << player1_response, player2_response >>
          ELSE IF mover = 1
               THEN /\ player2_response' =
                         [player2_response EXCEPT !.status = "Error"]
                    /\ UNCHANGED player1_response
               ELSE /\ player1_response' =
                         [player1_response EXCEPT !.status = "Error"]
                    /\ UNCHANGED player2_response
  /\ pc' = "send_waiting"
  /\ UNCHANGED << mover, player_move, wins, loses, closed >>
  /\ UNCHANGED << accepted, qvars >>

\* SendWaiting that sends nothing to the opponent after a refused move.
SendWaiting_SkipsOnRefused ==
  /\ pc = "send_waiting"
  /\ IF View(mover).response = "Refused"
     THEN UNCHANGED << player1_response, player2_response, sent >>
     ELSE \E ok \in BOOLEAN :
            /\ sent' = Append(sent,
                              Attempt(Other(mover), View(Other(mover)), ok))
            /\ IF ok
               THEN UNCHANGED << player1_response, player2_response >>
               ELSE IF mover = 1
                    THEN /\ player1_response' =
                              [player1_response EXCEPT !.status = "Error"]
                         /\ UNCHANGED player2_response
                    ELSE /\ player2_response' =
                              [player2_response EXCEPT !.status = "Error"]
                         /\ UNCHANGED player1_response
  /\ pc' = "check"
  /\ UNCHANGED << mover, player_move, wins, loses, closed >>
  /\ UNCHANGED << accepted, qvars >>

\* send_json to the opponent; an error marks the submitter's view.
SendWaiting ==
  /\ pc = "send_waiting"
  /\ \E ok \in BOOLEAN :
       /\ sent' = Append(sent, Attempt(Other(mover), View(Other(mover)), ok))
       /\ IF ok
          THEN UNCHANGED << player1_response, player2_response >>
          ELSE IF mover = 1
               THEN /\ player1_response' =
                         [player1_response EXCEPT !.status = "Error"]
                    /\ UNCHANGED player2_response
               ELSE /\ player2_response' =
                         [player2_response EXCEPT !.status = "Error"]
                    /\ UNCHANGED player1_response
  /\ pc' = "check"
  /\ UNCHANGED << mover, player_move, wins, loses, closed >>
  /\ UNCHANGED << accepted, qvars >>

\* BreakCheck that leaves the loop only on status Error.
BreakCheck_OnlyOnError ==
  /\ pc = "check"
  /\ IF View(mover).status = "Error"
     THEN /\ pc' = "after_loop"
          /\ UNCHANGED << mover, player_move, sent >>
     ELSE /\ pc' = "loop"
          /\ mover' = 0
          /\ sent' = << >>
          /\ UNCHANGED player_move
  /\ UNCHANGED << player1_response, player2_response, wins, loses, closed >>
  /\ UNCHANGED << accepted, qvars >>

\* if <submitter>.status != InGame { break; }, else the next iteration.
BreakCheck ==
  /\ pc = "check"
  /\ IF View(mover).status # "InGame"
     THEN /\ pc' = "after_loop"
          /\ UNCHANGED << mover, player_move, sent >>
     ELSE /\ pc' = "loop"
          /\ mover' = 0
          /\ sent' = << >>
          /\ UNCHANGED player_move
  /\ UNCHANGED << player1_response, player2_response, wins, loses, closed >>
  /\ UNCHANGED << accepted, qvars >>

\* A message that is not text or does not parse as a Move: the branch only
\* logs, and the iteration ends.
RecvMalformed(p) ==
  /\ pc = "loop"
  /\ mover' = p
  /\ sent' = << >>
  /\ pc' = "ignored"
  /\ UNCHANGED << player1_response, player2_response, player_move, wins,
                  loses, closed >>
  /\ UNCHANGED << accepted, qvars >>

EndIgnored ==
  /\ pc = "ignored"
  /\ pc' = "loop"
  /\ mover' = 0
  /\ sent' = << >>
  /\ UNCHANGED << player1_response, player2_response, player_move, wins,
                  loses, closed >>
  /\ UNCHANGED << accepted, qvars >>

\* The `_ =>` arm of a branch: the receive of p yielded None or an error.
Disconnect(p) ==
  /\ pc = "loop"
  /\ \E ok \in BOOLEAN :
       LET o == [View(Other(p)) EXCEPT !.status = "Error"]
       IN /\ IF p = 1
             THEN /\ player2_response' = o
                  /\ UNCHANGED player1_response
             ELSE /\ player1_response' = o
                  /\ UNCHANGED player2_response
          /\ sent' = << Attempt(Other(p), o, ok) >>
  /\ wins' = [wins EXCEPT ![p] = @ + 1]
  /\ loses' = [loses EXCEPT ![Other(p)] = @ + 1]
  /\ closed' = p
  /\ mover' = p
  /\ pc' = "after_loop"
  /\ UNCHANGED << player_move >>
  /\ UNCHANGED << accepted, qvars >>

\* final_winners whose second check is a copy of the first.
final_winners_CopiedCheck(s1, s2) ==
  (IF s1 = "Player1Won" /\ s1 = s2 THEN << 1 >> ELSE << >>)
  \o (IF s1 = "Player1Won" /\ s1 = s2 THEN << 1 >> ELSE << >>)

\* The winners the two checks after the loop report, in order.
final_winners(s1, s2) ==
  (IF s1 = "Player1Won" /\ s1 = s2 THEN << 1 >> ELSE << >>)
  \o (IF s2 = "Player2Won" /\ s1 = s2 THEN << 2 >> ELSE << >>)

Count(seq, p) == Cardinality({i \in DOMAIN seq : seq[i] = p})

AfterLoop ==
  /\ pc = "after_loop"
  /\ LET w == final_winners(player1_response.status, player2_response.status)
     IN /\ wins' = [p \in Players |-> wins[p] + Count(w, p)]
        /\ loses' = [p \in Players |-> loses[p] + Count(w, Other(p))]
  /\ pc' = "done"
  /\ UNCHANGED << player1_response, player2_response, mover, player_move,
                  sent, closed >>
  /\ UNCHANGED << accepted, qvars >>

Next ==
  \/ Start
  \/ \E p \in Players : RecvMove(p)
  \/ MakeMove
  \/ SendCurrent
  \/ SendWaiting
  \/ BreakCheck
  \/ \E p \in Players : RecvMalformed(p)
  \/ EndIgnored
  \/ \E p \in Players : Disconnect(p)
  \/ AfterLoop

Spec == Init /\ [][Next]_vars

\* ------------------------------------------------------------ matchmaking
\* search_game, one task per connection t.  The tasks run in parallel and
\* are split at their await points and at the acquisition of the mutex.

\* What the first receive of a connection can yield: no text message, a
\* text that is not token JSON, a token the database does not hold, or a
\* token it holds.
HandshakeOutcomes == {"missing", "bad_json", "unknown", "valid"}

\* socket.recv() and serde_json::from_str::<TokenRequest>: the first two
\* outcomes return at once.
Handshake(t) ==
  /\ tpc[t] = "connect"
  /\ \E o \in HandshakeOutcomes :
       /\ handshake' = [handshake EXCEPT ![t] = o]
       /\ tpc' = [tpc EXCEPT ![t] = IF o \in {"missing", "bad_json"}
                                    THEN "returned" ELSE "check_token"]
  /\ UNCHANGED << queue, lock, chan, order, games >>
  /\ UNCHANGED svars

\* TokenCheck that goes on whatever does_token_exists answers.
TokenCheck_NoReturn(t) ==
  /\ tpc[t] = "check_token"
  /\ tpc' = [tpc EXCEPT ![t] = "lookup"]
  /\ UNCHANGED << handshake, queue, lock, chan, order, games >>
  /\ UNCHANGED svars

\* if !does_token_exists(..).await { return; }
TokenCheck(t) ==
  /\ tpc[t] = "check_token"
  /\ tpc' = [tpc EXCEPT ![t] = IF handshake[t] = "valid"
                               THEN "lookup" ELSE "returned"]
  /\ UNCHANGED << handshake, queue, lock, chan, order, games >>
  /\ UNCHANGED svars

\* player_from_token(..).await
Lookup(t) ==
  /\ tpc[t] = "lookup"
  /\ tpc' = [tpc EXCEPT ![t] = "lock"]
  /\ UNCHANGED << handshake, queue, lock, chan, order, games >>
  /\ UNCHANGED svars

\* Lock that does not exclude other tasks.
Lock_NoExclusion(t) ==
  /\ tpc[t] = "lock"
  /\ lock' = lock
  /\ tpc' = [tpc EXCEPT ![t] = "locked"]
  /\ order' = Append(order, t)
  /\ UNCHANGED << handshake, queue, chan, games >>
  /\ UNCHANGED svars

\* appmod.queue.lock().unwrap(): blocks while another task holds the mutex.
Lock(t) ==
  /\ tpc[t] = "lock"
  /\ lock = 0
  /\ lock' = t
  /\ tpc' = [tpc EXCEPT ![t] = "locked"]
  /\ order' = Append(order, t)
  /\ UNCHANGED << handshake, queue, chan, games >>
  /\ UNCHANGED svars

\* Decide that drops the popped sender without sending into it.
Decide_DropsSender(t) ==
  /\ tpc[t] = "locked"
  /\ IF queue # << >>
     THEN /\ queue' = Tail(queue)
          /\ chan' = chan
          /\ tpc' = [tpc EXCEPT ![t] = "handed_over"]
     ELSE /\ queue' = Append(queue, t)
          /\ tpc' = [tpc EXCEPT ![t] = "waiting"]
          /\ UNCHANGED chan
  /\ lock' = 0
  /\ UNCHANGED << handshake, order, games >>
  /\ UNCHANGED svars

\* Decide whose guard outlives the block on the parking path.
Decide_KeepsLockWhileParked(t) ==
  /\ tpc[t] = "locked"
  /\ IF queue # << >>
     THEN /\ queue' = Tail(queue)
          /\ chan' = [chan EXCEPT ![Head(queue)] = t]
          /\ tpc' = [tpc EXCEPT ![t] = "handed_over"]
          /\ lock' = 0
     ELSE /\ queue' = Append(queue, t)
          /\ tpc' = [tpc EXCEPT ![t] = "waiting"]
          /\ lock' = lock
          /\ UNCHANGED chan
  /\ UNCHANGED << handshake, order, games >>
  /\ UNCHANGED svars

\* The block under the mutex: pop the oldest sender and send the own
\* socket and identity into it, then return; or create a oneshot channel,
\* push its sender and keep the receiver.  The guard is dropped at the end
\* of the block on both paths.
Decide(t) ==
  /\ tpc[t] = "locked"
  /\ IF queue # << >>
     THEN /\ queue' = Tail(queue)
          /\ chan' = [chan EXCEPT ![Head(queue)] = t]
          /\ tpc' = [tpc EXCEPT ![t] = "handed_over"]
     ELSE /\ queue' = Append(queue, t)
          /\ tpc' = [tpc EXCEPT ![t] = "waiting"]
          /\ UNCHANGED chan
  /\ lock' = 0
  /\ UNCHANGED << handshake, order, games >>
  /\ UNCHANGED svars

\* The state of a game() call right after its two first responses are
\* built: who is player1 and player2, and their views.  last is the
\* player (1 or 2) whose move was handled last, 0 before any move.
NewGame(first, second) ==
  [player1 |-> first, player2 |-> second,
   player1_response |-> first_response_player1,
   player2_response |-> first_response_player2,
   last |-> 0]

\* Resume that passes the opponent's socket and identity first.
Resume_Swapped(t) ==
  /\ tpc[t] = "waiting"
  /\ chan[t] # 0
  /\ games' = Append(games, NewGame(chan[t], t))
  /\ chan' = [chan EXCEPT ![t] = 0]
  /\ tpc' = [tpc EXCEPT ![t] = "in_game"]
  /\ UNCHANGED << handshake, queue, lock, order >>
  /\ UNCHANGED svars

\* rx.await yields the opponent's socket and identity, and the waiter calls
\* game(socket, opponent_socket.0, player, opponent_socket.1, ..).
Resume(t) ==
  /\ tpc[t] = "waiting"
  /\ chan[t] # 0
  /\ games' = Append(games, NewGame(t, chan[t]))
  /\ chan' = [chan EXCEPT ![t] = 0]
  /\ tpc' = [tpc EXCEPT ![t] = "in_game"]
  /\ UNCHANGED << handshake, queue, lock, order >>
  /\ UNCHANGED svars

\* A started game handles a well-formed move of one of its players while
\* its board is still empty: the call of make_a_move of the branch of that
\* player.  (The sends of the step and the rest of the game are the
\* session part above.)
Play(i) ==
  /\ i \in DOMAIN games
  /\ \A c \in Cells : games[i].player1_response.game.board[c] = "Null"
  /\ \E m \in Players, field \in 0 .. MaxField :
       LET cur == IF m = 1 THEN games[i].player1_response
                  ELSE games[i].player2_response
           wai == IF m = 1 THEN games[i].player2_response
                  ELSE games[i].player1_response
           r == make_a_move(field, cur, wai)
       IN games' = [games EXCEPT
                      ![i].player1_response = IF m = 1 THEN r[1] ELSE r[2],
                      ![i].player2_response = IF m = 1 THEN r[2] ELSE r[1],
                      ![i].last = m]
  /\ UNCHANGED << tpc, handshake, queue, lock, chan, order >>
  /\ UNCHANGED svars

QNext ==
  \/ \E t \in Tickets : Handshake(t)
  \/ \E t \in Tickets : TokenCheck(t)
  \/ \E t \in Tickets : Lookup(t)
  \/ \E t \in Tickets : Lock(t)
  \/ \E t \in Tickets : Decide(t)
  \/ \E t \in Tickets : Resume(t)

QSpec == Init /\ [][QNext]_vars

\* A receiver whose sender was used is woken and polled by the runtime.
QFair == QSpec /\ \A t \in Tickets : WF_vars(Resume(t))

\* Matchmaking together with the first moves of the games it starts.
GNext ==
  \/ QNext
  \/ \E i \in 1 .. NumTickets : Play(i)

GSpec == Init /\ [][GNext]_vars

\* ----------------------------------------------------------------- claims
Zero == [p \in Players |-> 0]
OneFor(p) == [q \in Players |-> IF q = p THEN 1 ELSE 0]
Board(p) == View(p).game.board
SomeCombo(board, symbol) ==
  \E i \in 1 .. Len(WINNING_COMBINATIONS) :
    \A k \in 1 .. 3 : board[WINNING_COMBINATIONS[i][k]] = symbol
Full(board) == \A i \in Cells : board[i] # "Null"
Flip(symbol) == IF symbol = "O" THEN "X" ELSE "O"

\* C1: if the receive of participant P yields closed/error while the loop
\* runs, then at session end exactly one win is recorded for P's opponent,
\* exactly one loss for P, and nothing else.
C1_DisconnectCreditsOpponent ==
  (pc = "done" /\ closed # 0) =>
    (wins = OneFor(Other(closed)) /\ loses = OneFor(closed))

\* C2: make_a_move called with a move that is out of turn, out of range or
\* aimed at a non-empty cell sets the submitter's response to Refused and
\* leaves the board and current_move of both views as they were.
C2_RefusedMoveFrame ==
  [][ (/\ pc = "move"
       /\ \/ View(mover).your_symbol # View(mover).game.current_move
          \/ player_move > 8
          \/ Board(mover)[player_move] # "Null")
      => (/\ View(mover)'.response = "Refused"
          /\ player1_response'.game = player1_response.game
          /\ player2_response'.game = player2_response.game) ]_vars

\* C2 witness: an in-turn move of a participant in status InGame has been
\* refused by the field guard on a board that already holds a symbol.
C2_Witness ==
  /\ pc = "send_current"
  /\ View(mover).response = "Refused"
  /\ View(mover).status = "InGame"
  /\ View(mover).your_symbol = View(mover).game.current_move
  /\ \E i \in Cells : Board(mover)[i] # "Null"

C4_AcceptedMoveResult ==
  [][ (/\ pc = "move"
       /\ View(mover).your_symbol = View(mover).game.current_move
       /\ View(mover).status = "InGame"
       /\ player_move <= 8
       /\ Board(mover)[player_move] = "Null")
      => (\A p \in Players :
            LET old == Board(p)
                new == Board(p)'
                st == View(p)'.status
            IN /\ \A i \in Cells : i # player_move => new[i] = old[i]
               /\ new[player_move] = View(mover).your_symbol
               /\ st \in {"Player1Won", "Player2Won", "Draw", "InGame"}
               /\ SomeCombo(new, "O") => st = "Player1Won"
               /\ SomeCombo(new, "X") => st = "Player2Won"
               /\ (~SomeCombo(new, "O") /\ ~SomeCombo(new, "X") /\ Full(new))
                    => st = "Draw"
               /\ (~SomeCombo(new, "O") /\ ~SomeCombo(new, "X") /\ ~Full(new))
                    => /\ st = "InGame"
                       /\ View(p)'.game.current_move =
                            Flip(View(mover).game.current_move)) ]_vars

\* C4 witness: an accepted move has filled the board without a winner.
C4_Witness ==
  /\ pc = "send_current"
  /\ View(mover).response = "Accepted"
  /\ View(mover).status = "Draw"
  /\ View(Other(mover)).status = "Draw"

\* C5: a participant's status changes only from InGame to one terminal
\* value; a terminal status is never set back to InGame and never changed
\* to a different terminal value.
C5_TerminalStatusIsFinal ==
  [][ \A p \in Players :
        View(p).status # "InGame" => View(p)'.status = View(p).status ]_vars

\* C6: whenever the loop waits for the next inbound message the boards of
\* the two views are identical, and the boards sent to the two
\* participants after an Accepted move are equal.
C6_BoardsAgree ==
  /\ pc = "loop" => Board(1) = Board(2)
  /\ (pc = "check" /\ View(mover).response = "Accepted") =>
       /\ Len(sent) = 2
       /\ sent[1].msg.game.board = sent[2].msg.game.board

\* C6 witness: the loop waits again after an accepted move was broadcast.
C6_Witness ==
  /\ pc = "loop"
  /\ player1_response.response = "Accepted"
  /\ Board(2)[4] = "O"

\* C7: over the lifetime of a session at most one win and at most one loss
\* are recorded in total.
C7_AtMostOneReport ==
  /\ wins[1] + wins[2] <= 1
  /\ loses[1] + loses[2] <= 1

\* C7 witness: a session that ended through a disconnect branch and passed
\* the two checks after the loop with one win and one loss recorded.
C7_Witness ==
  /\ pc = "done"
  /\ closed # 0
  /\ wins[1] + wins[2] = 1
  /\ loses[1] + loses[2] = 1

\* C8: when an accepted move makes the status Player1Won or Player2Won the
\* loop exits after the two sends of that step, even if one of them fails,
\* and the session records one win for the winner and one loss for the
\* other; when the status becomes Draw it exits and records nothing.
C8_DecidedGameReported ==
  /\ [][ (pc = "check" /\ check_winner(Board(mover)) # "InGame")
           => pc' = "after_loop" ]_vars
  /\ [] ((pc = "done" /\ closed = 0 /\ mover # 0) =>
           /\ check_winner(Board(1)) = "Player1Won"
                => (wins = OneFor(1) /\ loses = OneFor(2))
           /\ check_winner(Board(1)) = "Player2Won"
                => (wins = OneFor(2) /\ loses = OneFor(1))
           /\ check_winner(Board(1)) = "Draw"
                => (wins = Zero /\ loses = Zero))

\* The participant whose send failed, when exactly one send of the step did.
FailedOnce(p) ==
  /\ \E i \in DOMAIN sent : sent[i].to = p /\ ~sent[i].ok
  /\ \A i \in DOMAIN sent : ~sent[i].ok => sent[i].to = p

\* C9: if a send fails during the broadcast of a move, the session
\* terminates as a result, the participant whose transport failed is
\* recorded one loss and the other participant one win.
C9_SendFailureForfeits ==
  /\ [][ (pc = "check" /\ \E i \in DOMAIN sent : ~sent[i].ok)
           => pc' = "after_loop" ]_vars
  /\ [] \A p \in Players :
          (pc = "done" /\ closed = 0 /\ mover # 0 /\ FailedOnce(p)) =>
            (wins = OneFor(Other(p)) /\ loses = OneFor(p))

\* C10: if an initial state message cannot be sent at session start, the
\* session ends before entering the message loop and records no win and
\* no loss.
C10_FailedStartAborts ==
  (pc # "start" /\ mover = 0 /\ \E i \in DOMAIN sent : ~sent[i].ok) =>
    (pc = "done" /\ wins = Zero /\ loses = Zero)

\* C11: when participant P sends a payload that does not parse as a move,
\* the session sends exactly one message, to P only, with response Refused,
\* nothing to the opponent, changes neither view, and keeps the loop running.
C11_MalformedRefusedToSender ==
  /\ [][ pc = "loop" /\ pc' = "ignored"
           => UNCHANGED << player1_response, player2_response >> ]_vars
  /\ [][ pc = "ignored" => pc' = "loop" ]_vars
  /\ [] (pc = "ignored" =>
           /\ Len(sent) = 1
           /\ sent[1].to = mover
           /\ sent[1].msg.response = "Refused")

\* C16: the two sends of a well-formed move's step (submitter first, then
\* opponent) are both done before the loop takes the next inbound message,
\* and make_a_move is never applied while a broadcast is in progress.
C16_BroadcastBeforeNextReceive ==
  [][ /\ pc \in {"send_current", "send_waiting", "check"}
         => /\ player1_response'.game = player1_response.game
            /\ player2_response'.game = player2_response.game
            /\ accepted' = accepted
            /\ pc' \notin {"move", "ignored"}
      /\ (pc # "loop" /\ pc' = "loop" /\ pc # "start" /\ pc # "ignored")
         => /\ Len(sent) = 2
            /\ sent[1].to = mover
            /\ sent[2].to = Other(mover)
      /\ pc' \in {"move", "ignored"} => pc = "loop" ]_vars

\* C16 witness: a second move is being handled after a completed broadcast.
C16_Witness ==
  /\ pc = "move"
  /\ accepted[1] + accepted[2] >= 1

\* C17: for every well-formed move of P, the message sent to P carries
\* response Accepted or Refused, and the message sent to the opponent
\* carries response Waiting together with the current board.
C17_OpponentSeesWaiting ==
  (pc = "check" /\ Len(sent) = 2) =>
    /\ sent[1].to = mover
    /\ sent[1].msg.response \in {"Accepted", "Refused"}
    /\ sent[2].to = Other(mover)
    /\ sent[2].msg.response = "Waiting"
    /\ sent[2].msg.game.board = Board(mover)

NumOf(board, symbol) == Cardinality({i \in Cells : board[i] = symbol})

\* C19: in every reachable state the number of O cells minus the number of
\* X cells is 0 or 1; while the status is InGame, current_move is O exactly
\* when the counts are equal and X exactly when O leads by one; a session
\* accepts at most 9 moves, at most 5 by O and at most 4 by X.
C19_AlternatingCounts ==
  \A p \in Players :
    LET o == NumOf(Board(p), "O")
        x == NumOf(Board(p), "X")
    IN /\ o - x \in {0, 1}
       /\ View(p).status = "InGame" =>
            /\ View(p).game.current_move = "O" <=> o = x
            /\ View(p).game.current_move = "X" <=> o = x + 1
       /\ accepted[1] + accepted[2] <= 9
       /\ accepted[1] <= 5
       /\ accepted[2] <= 4

\* C19 witness: all nine moves were accepted, five by O and four by X.
C19_Witness ==
  /\ accepted[1] = 5
  /\ accepted[2] = 4
  /\ NumOf(Board(1), "O") = 5
  /\ NumOf(Board(2), "X") = 4

\* C20: no move is accepted after the game reached Player1Won, Player2Won
\* or Draw: the loop exits in the step that produced the terminal status,
\* current_move is Null in both views from then on, and no reachable board
\* holds a complete triple of O and a complete triple of X.
C20_NothingAfterDecision ==
  /\ [][ check_winner(Board(1)) # "InGame" => accepted' = accepted ]_vars
  /\ [] (check_winner(Board(1)) # "InGame" =>
           /\ pc \in {"send_current", "send_waiting", "check",
                       "after_loop", "done"}
           /\ player1_response.game.current_move = "Null"
           /\ player2_response.game.current_move = "Null")
  /\ [] \A p \in Players :
          ~(SomeCombo(Board(p), "O") /\ SomeCombo(Board(p), "X"))

\* C20 witness: the session ended on a board that X won.
C20_Witness ==
  /\ pc = "done"
  /\ SomeCombo(Board(1), "X")
  /\ player1_response.game.current_move = "Null"

\* The tickets of a started game, and the k-th pair in mutex order.
Pair(g) == << g.player1, g.player2 >>
OrderPair(k) == << order[2 * k - 1], order[2 * k] >>
InOrder(t) == \E k \in DOMAIN order : order[k] = t
InQueue(t) == \E k \in DOMAIN queue : queue[k] = t
InGames(t) ==
  \E i \in DOMAIN games : games[i].player1 = t \/ games[i].player2 = t

\* No search_game task can take a step any more.
Quiescent ==
  \A t \in Tickets :
    \/ tpc[t] \in {"returned", "handed_over", "in_game"}
    \/ tpc[t] = "waiting" /\ chan[t] = 0

\* C12: with t1..tN the valid tickets in the order they took the queue
\* mutex, the sessions formed are the pairs (t(2k-1), t(2k)), exactly
\* floor(N/2) of them once all tasks have run, at most one ticket stays
\* parked and only when N is odd, and the queue never holds more than one
\* waiting sender.
C12_PairsInLockOrder ==
  /\ Len(queue) <= 1
  /\ \A i \in DOMAIN games :
       \E k \in 1 .. (Len(order) \div 2) : Pair(games[i]) = OrderPair(k)
  /\ \A i, j \in DOMAIN games : Pair(games[i]) = Pair(games[j]) => i = j
  /\ Quiescent =>
       /\ Len(games) = Len(order) \div 2
       /\ \A k \in 1 .. (Len(order) \div 2) :
            \E i \in DOMAIN games : Pair(games[i]) = OrderPair(k)
       /\ Cardinality({t \in Tickets : tpc[t] = "waiting"}) = Len(order) % 2

\* C12 witness: four valid tickets have all run and two sessions exist.
C12_Witness ==
  /\ Quiescent
  /\ Len(order) = 4
  /\ Len(games) = 2

\* C13: in every session the parked ticket is player 1 with symbol O and
\* the ticket that arrived second is player 2 with symbol X; both initial
\* views have an empty board and current_move O, so the first Accepted
\* move is made by the parked ticket and a first move by the second ticket
\* is Refused.
C13_ParkedTicketMovesFirst ==
  \A i \in DOMAIN games :
    LET g == games[i]
        b == g.player1_response.game.board
        empty == \A c \in Cells : b[c] = "Null"
    IN /\ tpc[g.player1] = "in_game"
       /\ tpc[g.player2] = "handed_over"
       /\ \E k \in DOMAIN order :
            /\ k + 1 \in DOMAIN order
            /\ order[k] = g.player1
            /\ order[k + 1] = g.player2
       /\ g.player1_response.your_symbol = "O"
       /\ g.player2_response.your_symbol = "X"
       /\ empty => /\ g.player1_response.game.current_move = "O"
                   /\ g.player2_response.game = g.player1_response.game
                   /\ g.player2_response.response # "Accepted"
                   /\ g.last = 2 => g.player2_response.response = "Refused"
       /\ ~empty => /\ g.last = 1
                    /\ g.player1_response.response = "Accepted"
                    /\ NumOf(b, "O") = 1
                    /\ NumOf(b, "X") = 0

\* C13 witness: in one session the second ticket moved first and was
\* refused; in another the parked ticket made the first accepted move.
C13_Witness ==
  \E i, j \in DOMAIN games :
    /\ games[i].last = 2
    /\ games[i].player2_response.response = "Refused"
    /\ games[j].last = 1
    /\ games[j].player1_response.response = "Accepted"
    /\ games[j].player1_response.game.board[4] = "O"
    /\ tpc[games[j].player1] = "in_game"

\* C14: if a parked ticket W's sender is popped by a later valid ticket T,
\* W is eventually resumed with T and starts the session (W, T); no
\* ticket is handed to two sessions and no popped waiter stays suspended.
C14_NoMissedWakeup ==
  /\ \A k \in 1 .. (NumTickets \div 2) :
       (Len(order) >= 2 * k /\ tpc[order[2 * k]] = "handed_over")
         ~> (/\ Len(order) >= 2 * k
             /\ \E i \in DOMAIN games : Pair(games[i]) = OrderPair(k))
  /\ \A w, t \in Tickets :
       (chan[w] = t) ~> (\E i \in DOMAIN games : Pair(games[i]) = << w, t >>)
  /\ [] \A i, j \in DOMAIN games :
          ({games[i].player1, games[i].player2}
             \cap {games[j].player1, games[j].player2} # {}) => i = j

\* C14 witness: a waiter was resumed while another popped waiter is still
\* suspended with its opponent already in its channel.
C14_Witness ==
  /\ Len(games) = 1
  /\ \E w \in Tickets : tpc[w] = "waiting" /\ chan[w] # 0

\* C15: no search_game task is suspended on its rendezvous, or running a
\* game, while it holds the queue mutex; a parked ticket never blocks
\* another ticket from entering the queue.
C15_LockNotHeldAcrossAwait ==
  /\ \A t \in Tickets : tpc[t] # "locked" => lock # t
  /\ (\A t \in Tickets : tpc[t] # "locked") => lock = 0

\* C15 witness: a ticket holds the mutex while another ticket is parked.
C15_Witness ==
  \E t, w \in Tickets :
    /\ tpc[w] = "waiting"
    /\ chan[w] = 0
    /\ tpc[t] = "locked"
    /\ lock = t

InvalidHandshake(t) == handshake[t] \in {"missing", "bad_json", "unknown"}

\* C18: a connection whose handshake is missing, is not token JSON or
\* carries an unknown token ends before any queue operation: the queue is
\* unchanged, no waiter is popped and no session is created for it.
C18_InvalidHandshakeTouchesNothing ==
  /\ [] \A t \in Tickets :
          InvalidHandshake(t) =>
            /\ tpc[t] \in {"check_token", "returned"}
            /\ ~InOrder(t) /\ ~InQueue(t) /\ ~InGames(t)
            /\ lock # t
            /\ \A w \in Tickets : chan[w] # t
  /\ [][ \A t \in Tickets :
           (InvalidHandshake(t)' /\ tpc'[t] # tpc[t])
             => UNCHANGED << queue, lock, chan, order, games >> ]_vars

\* C18 witness: a connection with an unknown token has returned while a
\* waiter is still parked in the queue.
C18_Witness ==
  \E t \in Tickets :
    /\ handshake[t] = "unknown"
    /\ tpc[t] = "returned"
    /\ Len(queue) = 1

\* C21: whenever the loop waits for the next inbound message the two views
\* carry the same current_move, and in every reachable state your_symbol
\* is O in player 1's view and X in player 2's view.
C21_ViewsShareTurn ==
  /\ pc = "loop" =>
       player1_response.game.current_move = player2_response.game.current_move
  /\ player1_response.your_symbol = "O"
  /\ player2_response.your_symbol = "X"

\* C21 witness: the loop waits after an accepted move of player 1 and a
\* refused move of player 2, with the turn passed to X in both views.
C21_Witness ==
  /\ pc = "loop"
  /\ player1_response.game.current_move = "X"
  /\ player2_response.game.current_move = "X"
  /\ accepted[1] = 1
  /\ player2_response.response = "Refused"

====
